---- MODULE Spec2Model ----
(***************************************************************************)
(* Vacation-request manager (FastAPI backend): the persisted tables and     *)
(* the HTTP handlers of /vacation-requests, with the notification service   *)
(* they call.  Every action is one HTTP call, handled to completion.        *)
(*                                                                          *)
(* Identifiers are integers (autoincrement keys, as the tests and the       *)
(* Notification foreign keys use them); 0 stands for a NULL key or date.    *)
(***************************************************************************)
EXTENDS Integers, FiniteSets, Sequences, TLC

(* ------------------------------ bounds --------------------------------- *)
\* dates are day numbers 1..MaxDay
MaxDay == 2
\* number of vacation requests ever created in one behaviour
MaxRequests == 1
\* number of notification rows ever created in one behaviour
MaxNotifications == 4
\* number of HTTP calls in one behaviour
MaxCalls == 3

(* --------------------------- value domains ----------------------------- *)
\* NULL of an integer column (key or date)
NoId == 0
\* NULL of a text or enum column, and a body field sent as JSON null
Null == "null"
\* a body field that the client did not send (pydantic exclude_unset)
Unset == "unset"

Days == 1..MaxDay
UserIds == {1, 2, 3, 4}

\* models/user.py UserRole
UserRole == {"employee", "manager", "admin"}
\* models/vacation_request.py RequestStatus
RequestStatus == {"pending", "approved", "rejected", "cancelled"}
\* models/notification.py NotificationType
NotificationType == {"request_created", "request_approved", "request_rejected",
                     "request_cancelled", "request_reviewed", "comment_added", "other"}

Reasons == {"r"}
Comments == {"c"}

VARIABLES
    users,              \* table users: id -> row
    requests,           \* table vacation_requests: id -> row
    nextRequestId,      \* next key of vacation_requests
    notifications,      \* table notifications: set of rows
    nextNotificationId, \* next key of notifications
    jobs,               \* delivery jobs handed to the task queue, in order
    last,               \* the HTTP call handled last and its response code
    calls,              \* number of HTTP calls handled so far
    nextUserId,         \* next key of users
    inflight,           \* POST /users/ calls between their email check and their insert
    body,               \* what the call handled last returned, where it matters
    sockets,            \* WebSocket connections: state, handler's user_id, frames sent to the client
    gateway,            \* the WebSocketManager: its three tables and the listener tasks it started
    settings            \* the environment given to Settings() and what loading it gave

vars == <<users, requests, nextRequestId, notifications, nextNotificationId, jobs,
          last, calls, nextUserId, inflight, body, sockets, gateway, settings>>

(* ------------------------------ users ---------------------------------- *)
\* the seeded users: the bootstrap admin, a manager, an employee, and a
\* second manager whose account has been deactivated
SeedRole(u) == CASE u = 1 -> "admin" [] u = 3 -> "employee" [] OTHER -> "manager"

SeedActive(u) == u # 4

\* allowance of each seeded user: the employee has a single day, the others
\* as many days as the calendar of the model has
SeedDays(u) == IF SeedRole(u) = "employee" THEN 1 ELSE MaxDay

\* deps.get_current_active_user: crud.user.is_active
is_active(u) == users[u].is_active

\* crud.user.is_manager_or_admin
is_manager_or_admin(u) == users[u].role \in {"manager", "admin"}

(* ------------------------- request bodies ------------------------------ *)
\* a body with no field set (GET, DELETE)
NoBody == [start_date |-> NoId, end_date |-> NoId, status |-> Unset,
           reason |-> Null, reviewer_comment |-> Null]

\* VacationRequestCreate bodies: both dates required, the reason left out
CreateBodies == [start_date : Days, end_date : Days, status : {Unset},
                 reason : {Null}, reviewer_comment : {Null}]

\* VacationRequestUpdate bodies, every field optional.  The bodies sent are
\* a change of dates (the empty body among them), a change of the reason, or
\* a decision: a status (a value or JSON null), a comment, or an approval or
\* rejection with its comment.
DateEdits == [start_date : Days \cup {NoId}, end_date : Days \cup {NoId},
              status : {Unset}, reason : {Null}, reviewer_comment : {Null}]
TextEdits == [start_date : {NoId}, end_date : {NoId}, status : {Unset},
              reason : Reasons, reviewer_comment : {Null}]
Decisions ==
    [start_date : {NoId}, end_date : {NoId}, status : RequestStatus \cup {Null},
     reason : {Null}, reviewer_comment : {Null}]
    \cup [start_date : {NoId}, end_date : {NoId},
          status : {"approved", "rejected", Unset},
          reason : {Null}, reviewer_comment : Comments]
UpdateBodies == DateEdits \cup TextEdits \cup Decisions

\* VacationRequestBase.end_date_must_be_after_start_date
CreateValid(b) == ~(b.end_date < b.start_date)

\* VacationRequestUpdate.end_date_must_be_after_start_date
UpdateValid(b) ==
    ~(b.end_date # NoId /\ b.start_date # NoId /\ b.end_date < b.start_date)

\* response_model=VacationRequest: the row returned is validated by the same
\* validator of VacationRequestBase, and the call fails when it is refused
ResponseCode(req) == IF req.end_date < req.start_date THEN 500 ELSE 200

\* request_in.status is not None
StatusGiven(b) == b.status \notin {Null, Unset}

(* --------------------------- responses --------------------------------- *)
\* the call handled last: endpoint, caller, path id, response status code
Call(op, u, rid, code) == [op |-> op, caller |-> u, rid |-> rid, code |-> code]


\* str(x) of an integer key, as the task arguments carry it
Str(x) == [str |-> x]

(* ------------------------- tables after construction ------------------- *)
UserRow(u) ==
    [role |-> SeedRole(u), is_active |-> SeedActive(u), is_superuser |-> (u = 1),
     total_vacation_days |-> SeedDays(u)]

TypeOK ==
    /\ DOMAIN users = UserIds
    /\ DOMAIN requests \subseteq 1..MaxRequests
    /\ nextRequestId \in 1..(MaxRequests + 1)
    /\ nextNotificationId \in 1..(MaxNotifications + 1)
    /\ Cardinality(notifications) <= MaxNotifications
    /\ Len(jobs) <= MaxNotifications

\* The tables hold the seeded users and nothing else.
Init ==
    /\ users = [u \in UserIds |-> UserRow(u)]
    /\ requests = << >>
    /\ nextRequestId = 1
    /\ notifications = {}
    /\ nextNotificationId = 1
    /\ jobs = << >>
    /\ last = Call("none", NoId, NoId, 0)
    /\ calls = 0
    /\ nextUserId = 5
    /\ inflight = {}
    /\ body = Null
    /\ sockets = << >>
    /\ gateway = Null
    /\ settings = Null

(* --------------------------- notification rows ------------------------- *)
\* the text of a notification: its wording, the user whose display name it
\* quotes, the request's dates as formatted, and a quoted reviewer comment
Message(kind, who, req, comment) ==
    [kind |-> kind, who |-> who, start |-> req.start_date, end |-> req.end_date,
     comment |-> comment]

\* crud.notification.create_notification: read=None falls back to the column
\* default False
create_notification(id, obj_in) ==
    [id |-> id, user_id |-> obj_in.user_id, type |-> obj_in.type,
     message |-> obj_in.message, related_request_id |-> obj_in.related_request_id,
     read |-> IF obj_in.read = Null THEN FALSE ELSE obj_in.read = "true"]

\* NotificationCreate as the service builds it (read left unset)
NotificationCreate(user_id, type, message, rid) ==
    [user_id |-> user_id, type |-> type, message |-> message,
     related_request_id |-> rid, read |-> Null]

DeliveryJob_created(obj_in) ==
    [user_id |-> Str(obj_in.user_id), type |-> "request_created",
     message |-> obj_in.message, related_request_id |-> Str(obj_in.related_request_id)]

\* send_notification_task.delay(...) arguments for one notification
DeliveryJob(obj_in) ==
    [user_id |-> Str(obj_in.user_id), type |-> obj_in.type,
     message |-> obj_in.message, related_request_id |-> Str(obj_in.related_request_id)]

\* rows and jobs after the service persisted and dispatched the sequence em
\* of NotificationCreate objects, one after the other
Persisted(em) ==
    notifications \cup
      {create_notification(nextNotificationId + i - 1, em[i]) : i \in 1..Len(em)}

RECURSIVE Dispatched(_, _)
Dispatched(q, em) ==
    IF em = << >> THEN q ELSE Dispatched(Append(q, DeliveryJob(Head(em))), Tail(em))

HasRoom(em) == nextNotificationId + Len(em) - 1 <= MaxNotifications

\* the rows of a key set as a query returns them, in key order
RECURSIVE InKeyOrder(_)
InKeyOrder(S) ==
    IF S = {} THEN << >>
    ELSE LET m == CHOOSE x \in S : \A y \in S : x <= y
         IN <<m>> \o InKeyOrder(S \ {m})

\* the is_active condition of the query is left out
ManagerIds_any ==
    InKeyOrder({m \in UserIds : users[m].role \in {"manager", "admin"}})

\* create_vacation_request lines 62-70: active managers and admins
ManagerIds ==
    InKeyOrder({m \in UserIds :
                  users[m].role \in {"manager", "admin"} /\ users[m].is_active = TRUE})

\* notification_service.notify_new_request
notify_new_request(rid, req, manager_ids) ==
    [i \in 1..Len(manager_ids) |->
        NotificationCreate(manager_ids[i], "request_created",
                           Message("new_request", req.requester_id, req, Null), rid)]

\* the approval is notified to the reviewer instead of the requester
RequesterNotice_reviewer(rid, req) ==
    CASE req.status = "approved" ->
           <<NotificationCreate(req.reviewer_id, "request_approved",
                                Message("approved", NoId, req, Null), rid)>>
      [] req.status = "rejected" ->
           <<NotificationCreate(req.requester_id, "request_rejected",
                                Message("rejected", NoId, req, req.reviewer_comment), rid)>>
      [] req.status = "cancelled" ->
           <<NotificationCreate(req.requester_id, "request_cancelled",
                                Message("cancelled", NoId, req, Null), rid)>>
      [] OTHER -> << >>

\* notification_service.notify_status_change, the requester's part
RequesterNotice(rid, req) ==
    CASE req.status = "approved" ->
           <<NotificationCreate(req.requester_id, "request_approved",
                                Message("approved", NoId, req, Null), rid)>>
      [] req.status = "rejected" ->
           <<NotificationCreate(req.requester_id, "request_rejected",
                                Message("rejected", NoId, req, req.reviewer_comment), rid)>>
      [] req.status = "cancelled" ->
           <<NotificationCreate(req.requester_id, "request_cancelled",
                                Message("cancelled", NoId, req, Null), rid)>>
      [] OTHER -> << >>

\* ... and the reviewer's part, which reads vacation_request.requester
ReviewerNoticeDue(req, old_status) == old_status = "pending" /\ req.reviewer_id # NoId

ReviewerNotice(rid, req) ==
    <<NotificationCreate(req.reviewer_id, "request_reviewed",
                         Message("reviewed", req.requester_id, req, Null), rid)>>

\* notify_status_change: the notifications it creates, and whether it raises.
\* loaded tells whether the requester row is in the session when the
\* relationship is read; if not, the lazy load raises outside a greenlet.
notify_status_change(rid, req, old_status, loaded) ==
    IF old_status = req.status THEN [em |-> << >>, raised |-> FALSE]
    ELSE IF ~ReviewerNoticeDue(req, old_status)
         THEN [em |-> RequesterNotice(rid, req), raised |-> FALSE]
    ELSE IF loaded
         THEN [em |-> RequesterNotice(rid, req) \o ReviewerNotice(rid, req), raised |-> FALSE]
    ELSE [em |-> RequesterNotice(rid, req), raised |-> TRUE]

\* the session holds the caller's row; another user's row only when some
\* earlier query of the same session loaded it.  The choice is open only
\* where the relationship is read: a pending request of another user whose
\* status the body sets
Loadable(u, request, b) ==
    IF request.requester_id # u /\ request.status = "pending" /\ StatusGiven(b)
    THEN BOOLEAN ELSE {TRUE}

(* ------------------------ vacation_requests table ---------------------- *)
\* VacationRequest.days_requested, and the delta the endpoints compute
DaysRequested(start_date, end_date) == end_date - start_date + 1

\* crud.vacation_request.create_vacation_request
crud_create_vacation_request(obj_in, requester_id) ==
    [start_date |-> obj_in.start_date, end_date |-> obj_in.end_date,
     reason |-> obj_in.reason, requester_id |-> requester_id,
     status |-> "pending", created_at |-> "today", updated_at |-> Null,
     reviewer_id |-> NoId, reviewer_comment |-> Null]

\* crud.vacation_request.update_vacation_request lines 167-171: the stamp
\* taken when the body carries a status that differs from the stored one
StatusStamp(db_obj, obj_in, reviewer_id) ==
    IF obj_in.status # Unset /\ obj_in.status # db_obj.status
    THEN [db_obj EXCEPT !.updated_at = "today",
                        !.reviewer_id = IF reviewer_id # NoId THEN reviewer_id ELSE @]
    ELSE db_obj

\* crud.vacation_request.update_vacation_request
crud_update_vacation_request(db_obj, obj_in, reviewer_id) ==
    LET o == StatusStamp(db_obj, obj_in, reviewer_id) IN
    [o EXCEPT
       !.start_date = IF obj_in.start_date # NoId THEN obj_in.start_date ELSE @,
       !.end_date = IF obj_in.end_date # NoId THEN obj_in.end_date ELSE @,
       !.status = IF StatusGiven(obj_in) THEN obj_in.status ELSE @,
       !.reason = IF obj_in.reason # Null THEN obj_in.reason ELSE @,
       !.reviewer_comment = IF obj_in.reviewer_comment # Null
                            THEN obj_in.reviewer_comment ELSE @]

\* an HTTP call that is answered without touching the tables
Answer(op, u, rid, code) ==
    /\ last' = Call(op, u, rid, code)
    /\ UNCHANGED <<users, requests, nextRequestId, notifications, nextNotificationId, jobs>>

(* ---------------------- POST /vacation-requests/ ----------------------- *)
\* the day count leaves out the last day
ExceedsAllowance_exclusive(u, start_date, end_date) ==
    end_date - start_date > users[u].total_vacation_days

\* the allowance test of create_vacation_request (line 51)
ExceedsAllowance(u, start_date, end_date) ==
    DaysRequested(start_date, end_date) > users[u].total_vacation_days

create_vacation_request(u, b) ==
    IF ~is_active(u) THEN Answer("create", u, NoId, 403)
    ELSE IF ~CreateValid(b) THEN Answer("create", u, NoId, 422)
    ELSE IF ExceedsAllowance(u, b.start_date, b.end_date)
         THEN Answer("create", u, NoId, 400)
    ELSE LET rid == nextRequestId
             req == crud_create_vacation_request(b, u)
             em  == notify_new_request(rid, req, ManagerIds)
         IN /\ nextRequestId <= MaxRequests
            /\ HasRoom(em)
            /\ requests' = [i \in DOMAIN requests \cup {rid} |->
                              IF i = rid THEN req ELSE requests[i]]
            /\ nextRequestId' = nextRequestId + 1
            /\ notifications' = Persisted(em)
            /\ nextNotificationId' = nextNotificationId + Len(em)
            /\ jobs' = Dispatched(jobs, em)
            /\ last' = Call("create", u, rid, ResponseCode(req))
            /\ UNCHANGED users

(* ---------------------- GET /vacation-requests/{id} -------------------- *)
\* the owner test compares the wrong way round
NotOwnerNorReviewer_eq(u, request) ==
    ~is_manager_or_admin(u) /\ request.requester_id = u

\* lines 169 and 214: the caller is neither manager/admin nor the requester
NotOwnerNorReviewer(u, request) ==
    ~is_manager_or_admin(u) /\ request.requester_id # u

read_vacation_request(u, rid) ==
    IF ~is_active(u) THEN Answer("read", u, rid, 403)
    ELSE IF rid \notin DOMAIN requests THEN Answer("read", u, rid, 404)
    ELSE IF NotOwnerNorReviewer(u, requests[rid])
         THEN Answer("read", u, rid, 403)
    ELSE Answer("read", u, rid, ResponseCode(requests[rid]))

(* ---------------------- PUT /vacation-requests/{id} -------------------- *)
\* the update is stored, then the status change is notified
StoreAndNotify(op, u, rid, b, reviewer_id, loaded) ==
    LET old_status == requests[rid].status
        req == crud_update_vacation_request(requests[rid], b, reviewer_id)
        out == notify_status_change(rid, req, old_status, loaded)
    IN /\ HasRoom(out.em)
       /\ requests' = [requests EXCEPT ![rid] = req]
       /\ notifications' = Persisted(out.em)
       /\ nextNotificationId' = nextNotificationId + Len(out.em)
       /\ jobs' = Dispatched(jobs, out.em)
       /\ last' = Call(op, u, rid, IF out.raised THEN 500 ELSE ResponseCode(req))
       /\ UNCHANGED <<users, nextRequestId>>

\* lines 234-245: the allowance is tested only for the owner's date changes
DateCheckFails(u, b, request) ==
    /\ (b.start_date # NoId \/ b.end_date # NoId)
    /\ request.requester_id = u
    /\ ExceedsAllowance(u,
          IF b.start_date # NoId THEN b.start_date ELSE request.start_date,
          IF b.end_date # NoId THEN b.end_date ELSE request.end_date)

\* the test of the body's status is left out
OwnerSetsStatus_off(is_owner, is_mgr, b) == FALSE

\* lines 227-232: an owner who is not manager/admin may not send a status
OwnerSetsStatus(is_owner, is_mgr, b) == is_owner /\ ~is_mgr /\ StatusGiven(b)

\* only approved requests are closed to their owner
OwnerEditBlocked_approved(is_owner, is_mgr, request) ==
    is_owner /\ ~is_mgr /\ request.status = "approved"

\* lines 220-225: an owner who is not manager/admin edits pending requests only
OwnerEditBlocked(is_owner, is_mgr, request) ==
    is_owner /\ ~is_mgr /\ request.status # "pending"

update_vacation_request(u, rid, b, loaded) ==
    IF ~is_active(u) THEN Answer("update", u, rid, 403)
    ELSE IF ~UpdateValid(b) THEN Answer("update", u, rid, 422)
    ELSE IF rid \notin DOMAIN requests THEN Answer("update", u, rid, 404)
    ELSE LET request == requests[rid]
             is_mgr == is_manager_or_admin(u)
             is_owner == request.requester_id = u
         IN IF NotOwnerNorReviewer(u, request) THEN Answer("update", u, rid, 403)
            ELSE IF OwnerEditBlocked(is_owner, is_mgr, request)
                 THEN Answer("update", u, rid, 403)
            ELSE IF OwnerSetsStatus(is_owner, is_mgr, b)
                 THEN Answer("update", u, rid, 403)
            ELSE IF DateCheckFails(u, b, request)
                 THEN Answer("update", u, rid, 400)
            ELSE StoreAndNotify("update", u, rid, b, IF is_mgr THEN u ELSE NoId, loaded)

(* ------------------- PUT /vacation-requests/{id}/review ---------------- *)
review_vacation_request(u, rid, b, loaded) ==
    IF ~is_active(u) THEN Answer("review", u, rid, 403)
    ELSE IF ~is_manager_or_admin(u) THEN Answer("review", u, rid, 403)
    ELSE IF ~UpdateValid(b) THEN Answer("review", u, rid, 422)
    ELSE IF rid \notin DOMAIN requests THEN Answer("review", u, rid, 404)
    ELSE StoreAndNotify("review", u, rid, b, u, loaded)

(* -------------------- DELETE /vacation-requests/{id} ------------------- *)
\* crud.vacation_request.delete_vacation_request: the row goes, and the
\* notifications relationship (no delete cascade) has the rows that refer
\* to it detached, their related_request_id set to NULL
crud_delete_vacation_request(rid) ==
    /\ requests' = [i \in DOMAIN requests \ {rid} |-> requests[i]]
    /\ notifications' = {IF n.related_request_id = rid
                         THEN [n EXCEPT !.related_request_id = NoId] ELSE n :
                         n \in notifications}

\* managers are let through like admins
OwnerDeleteBlocked_mgr(is_owner, is_admin, request) ==
    is_owner /\ ~is_admin /\ request.status # "pending"
    /\ users[request.requester_id].role # "manager"

\* lines 350-355: an owner who is not admin deletes pending requests only
OwnerDeleteBlocked(is_owner, is_admin, request) ==
    is_owner /\ ~is_admin /\ request.status # "pending"

delete_vacation_request(u, rid) ==
    IF ~is_active(u) THEN Answer("delete", u, rid, 403)
    ELSE IF rid \notin DOMAIN requests THEN Answer("delete", u, rid, 404)
    ELSE LET request == requests[rid]
             is_admin == users[u].role = "admin"
             is_owner == request.requester_id = u
         IN IF ~is_owner /\ ~is_admin THEN Answer("delete", u, rid, 403)
            ELSE IF OwnerDeleteBlocked(is_owner, is_admin, request)
                 THEN Answer("delete", u, rid, 403)
            ELSE /\ crud_delete_vacation_request(rid)
                 /\ last' = Call("delete", u, rid, 204)
                 /\ UNCHANGED <<users, nextRequestId, nextNotificationId, jobs>>

(* --------------------------- specification ----------------------------- *)
RequestIds == 1..MaxRequests

\* The dependencies that authenticate the caller run before the body is
\* parsed: a caller they reject is answered whatever the body holds.
BodiesRead(ok, bodies) == IF ok THEN bodies ELSE {NoBody}

\* the choice of loaded is open only for an existing request
LoadChoices(u, rid, b) ==
    IF rid \in DOMAIN requests THEN Loadable(u, requests[rid], b) ELSE {TRUE}

CreateStep ==
    \E u \in UserIds : \E b \in BodiesRead(is_active(u), CreateBodies) :
        create_vacation_request(u, b)
ReadStep == \E u \in UserIds, rid \in RequestIds : read_vacation_request(u, rid)
UpdateStep ==
    \E u \in UserIds, rid \in RequestIds :
        \E b \in BodiesRead(is_active(u), UpdateBodies) :
            \E loaded \in LoadChoices(u, rid, b) : update_vacation_request(u, rid, b, loaded)
ReviewStep ==
    \E u \in UserIds, rid \in RequestIds :
        \E b \in BodiesRead(is_active(u) /\ is_manager_or_admin(u), UpdateBodies) :
            \E loaded \in LoadChoices(u, rid, b) : review_vacation_request(u, rid, b, loaded)
DeleteStep == \E u \in UserIds, rid \in RequestIds : delete_vacation_request(u, rid)

\* the server takes another call, and has handled it
Open == calls < MaxCalls
Handled == calls' = calls + 1 /\ UNCHANGED <<nextUserId, inflight, body, sockets, gateway, settings>>

Next ==
    \/ Open /\ CreateStep /\ Handled
    \/ Open /\ ReadStep /\ Handled
    \/ Open /\ UpdateStep /\ Handled
    \/ Open /\ ReviewStep /\ Handled
    \/ Open /\ DeleteStep /\ Handled

Spec == Init /\ [][Next]_vars

(* ------------------------------ properties ----------------------------- *)
\* C1: when an active caller POSTs a request whose day count
\* (end_date - start_date + 1) exceeds the caller's total_vacation_days, the
\* call is answered 400 and neither the requests nor the notifications change.
C1_CreateOverAllowanceRejected ==
    [][last'.op = "create" =>
         \A b \in CreateBodies :
            (/\ create_vacation_request(last'.caller, b)
             /\ is_active(last'.caller)
             /\ b.end_date - b.start_date + 1 > users[last'.caller].total_vacation_days)
            => (last'.code = 400 /\ requests' = requests
                /\ notifications' = notifications)]_vars

\* a POST over the allowance has been answered 400
C1_Witness ==
    /\ last.op = "create" /\ last.code = 400
    /\ \E b \in CreateBodies :
          b.end_date - b.start_date + 1 > users[last.caller].total_vacation_days

\* C2: no PUT /{id} and no PUT /{id}/review made by the requester of a
\* request, whatever the requester's role, changes the status of that request.
C2_RequesterNeverChangesOwnStatus ==
    [][\A rid \in DOMAIN requests \cap DOMAIN requests' :
          (last'.op \in {"update", "review"} /\ last'.caller = requests[rid].requester_id)
          => requests'[rid].status = requests[rid].status]_vars

\* C3: every change of a request's status is made by a call whose caller has
\* role manager or admin; a call by an employee changes no status.
C3_StatusChangedByReviewersOnly ==
    [][\A rid \in DOMAIN requests \cap DOMAIN requests' :
          requests'[rid].status # requests[rid].status
          => users[last'.caller].role \in {"manager", "admin"}]_vars

\* a manager or admin has changed the status of a request
C3_Witness ==
    /\ last.op \in {"update", "review"}
    /\ last.rid \in DOMAIN requests
    /\ requests[last.rid].status # "pending"
    /\ users[last.caller].role \in {"manager", "admin"}

\* C4: every accepted PUT /{id} or PUT /{id}/review that changes the dates of
\* a request leaves a day count within the requester's total_vacation_days.
C4_DateChangeWithinAllowance ==
    [][\A rid \in DOMAIN requests \cap DOMAIN requests' :
          (/\ last'.op \in {"update", "review"} /\ last'.code = 200
           /\ <<requests'[rid].start_date, requests'[rid].end_date>>
                # <<requests[rid].start_date, requests[rid].end_date>>)
          => requests'[rid].end_date - requests'[rid].start_date + 1
               <= users[requests[rid].requester_id].total_vacation_days]_vars

\* C5: every stored request has end_date >= start_date.
C5_EndNotBeforeStart ==
    \A rid \in DOMAIN requests : requests[rid].end_date >= requests[rid].start_date

C7_DeleteRules ==
    [][/\ (last'.op = "delete" /\ last'.rid \in DOMAIN requests /\ is_active(last'.caller))
          => LET request == requests[last'.rid]
                 is_admin == users[last'.caller].role = "admin"
                 is_owner == request.requester_id = last'.caller
                 removed == last'.code = 204 /\ last'.rid \notin DOMAIN requests'
             IN /\ is_admin => removed
                /\ (is_owner /\ ~is_admin /\ request.status = "pending") => removed
                /\ (is_owner /\ ~is_admin /\ request.status # "pending")
                      => (last'.code = 403 /\ requests' = requests)
       /\ \A rid \in 1..(nextRequestId - 1) :
             rid \notin DOMAIN requests => rid \notin DOMAIN requests'
       /\ (last'.op = "read" /\ is_active(last'.caller)
           /\ last'.rid \notin DOMAIN requests)
          => last'.code = 404]_vars

\* a request that was deleted has been asked for again, and was not found
C7_Witness ==
    /\ last.op = "read" /\ last.code = 404
    /\ last.rid < nextRequestId /\ last.rid \notin DOMAIN requests

C9_ReviewApproves ==
    [][(/\ last'.op = "review"
        /\ last'.rid \in DOMAIN requests
        /\ requests[last'.rid].status = "pending"
        /\ is_active(last'.caller) /\ is_manager_or_admin(last'.caller))
       => \A b \in Decisions, loaded \in BOOLEAN :
            (/\ b.status = "approved" /\ b.reviewer_comment # Null
             /\ review_vacation_request(last'.caller, last'.rid, b, loaded))
            => LET stored == requests'[last'.rid]
                   new == {n \in notifications' :
                             n.id >= nextNotificationId /\ n.type = "request_approved"}
               IN /\ stored.status = "approved"
                  /\ stored.reviewer_comment = b.reviewer_comment
                  /\ stored.reviewer_id = last'.caller
                  /\ Cardinality(new) = 1
                  /\ \A n \in new : n.user_id = requests[last'.rid].requester_id]_vars

\* a review has approved a request with a comment, and the approval is
\* notified
C9_Witness ==
    /\ last.op = "review" /\ last.rid \in DOMAIN requests
    /\ requests[last.rid].status = "approved"
    /\ requests[last.rid].reviewer_comment # Null
    /\ requests[last.rid].reviewer_id = last.caller
    /\ \E n \in notifications : n.type = "request_approved"

\* C10: after a successful POST every active manager and every active admin
\* has exactly one new notification, of type request_created, unread, whose
\* related_request_id is the new request; nobody else has a new notification.
C10_CreateNotifiesManagers ==
    [][(last'.op = "create" /\ last'.code = 200)
       => LET new == {n \in notifications' : n.id >= nextNotificationId}
          IN \A u \in UserIds :
               IF users[u].is_active /\ users[u].role \in {"manager", "admin"}
               THEN /\ Cardinality({n \in new : n.user_id = u}) = 1
                    /\ \A n \in new :
                          n.user_id = u =>
                             /\ n.type = "request_created"
                             /\ n.read = FALSE
                             /\ n.related_request_id = last'.rid
               ELSE \A n \in new : n.user_id # u]_vars

\* a request has been created and its notifications are stored
C10_Witness ==
    /\ last.op = "create" /\ last.code = 200
    /\ \E n \in notifications :
          n.type = "request_created" /\ n.related_request_id = last.rid


(* ================= notification failures in the request handlers ======= *)
\* What can go wrong while a handler notifies: the commit of the at-th
\* notification row raises, or the .delay() of the at-th delivery job raises.
NoFault == [kind |-> "none", at |-> NoId]
Faults == {NoFault} \cup [kind : {"persist", "enqueue"}, at : 1..MaxNotifications]

\* The service walks the notifications em in order.  create_*_notification
\* is awaited outside any try: when it raises, the service is left at that
\* point, with the earlier rows committed and their jobs sent.
\* send_notification_task.delay sits in try/except Exception: when it
\* raises, the error is logged and only that job is missing.
ServiceRun(em, f) ==
    IF f.kind = "persist" /\ f.at <= Len(em)
    THEN [rows |-> SubSeq(em, 1, f.at - 1), sent |-> SubSeq(em, 1, f.at - 1),
          raised |-> TRUE]
    ELSE IF f.kind = "enqueue" /\ f.at <= Len(em)
    THEN [rows |-> em,
          sent |-> SubSeq(em, 1, f.at - 1) \o SubSeq(em, f.at + 1, Len(em)),
          raised |-> FALSE]
    ELSE [rows |-> em, sent |-> em, raised |-> FALSE]

\* the conditions under which create_vacation_request reaches its insert
CreateAccepted(u, b) ==
    is_active(u) /\ CreateValid(b) /\ ~ExceedsAllowance(u, b.start_date, b.end_date)

\* POST /vacation-requests/ lines 74-81: the request row is committed, then
\* notify_new_request runs inside try/except Exception
create_under_fault(u, b, f) ==
    IF ~CreateAccepted(u, b) THEN create_vacation_request(u, b)
    ELSE LET rid == nextRequestId
             req == crud_create_vacation_request(b, u)
             run == ServiceRun(notify_new_request(rid, req, ManagerIds), f)
         IN /\ nextRequestId <= MaxRequests
            /\ HasRoom(run.rows)
            /\ requests' = [i \in DOMAIN requests \cup {rid} |->
                              IF i = rid THEN req ELSE requests[i]]
            /\ nextRequestId' = nextRequestId + 1
            /\ notifications' = Persisted(run.rows)
            /\ nextNotificationId' = nextNotificationId + Len(run.rows)
            /\ jobs' = Dispatched(jobs, run.sent)
            /\ last' = Call("create", u, rid, ResponseCode(req))
            /\ UNCHANGED users

\* lines 247-262 and 297-308: the update is committed, then
\* notify_status_change is awaited with no try around it; what it raises
\* reaches the client as 500
StoreAndNotifyUnderFault(op, u, rid, b, reviewer_id, loaded, f) ==
    LET old_status == requests[rid].status
        req == crud_update_vacation_request(requests[rid], b, reviewer_id)
        out == notify_status_change(rid, req, old_status, loaded)
        run == ServiceRun(out.em, f)
    IN /\ HasRoom(run.rows)
       /\ requests' = [requests EXCEPT ![rid] = req]
       /\ notifications' = Persisted(run.rows)
       /\ nextNotificationId' = nextNotificationId + Len(run.rows)
       /\ jobs' = Dispatched(jobs, run.sent)
       /\ last' = Call(op, u, rid,
                       IF out.raised \/ run.raised THEN 500 ELSE ResponseCode(req))
       /\ UNCHANGED <<users, nextRequestId>>

\* the conditions under which update_vacation_request reaches its update
UpdateAccepted(u, rid, b) ==
    /\ is_active(u) /\ UpdateValid(b) /\ rid \in DOMAIN requests
    /\ LET request == requests[rid]
           is_mgr == is_manager_or_admin(u)
           is_owner == request.requester_id = u
       IN /\ ~NotOwnerNorReviewer(u, request)
          /\ ~OwnerEditBlocked(is_owner, is_mgr, request)
          /\ ~OwnerSetsStatus(is_owner, is_mgr, b)
          /\ ~DateCheckFails(u, b, request)

update_under_fault(u, rid, b, loaded, f) ==
    IF ~UpdateAccepted(u, rid, b) THEN update_vacation_request(u, rid, b, loaded)
    ELSE StoreAndNotifyUnderFault("update", u, rid, b,
                                  IF is_manager_or_admin(u) THEN u ELSE NoId, loaded, f)

\* the conditions under which review_vacation_request reaches its update
ReviewAccepted(u, rid, b) ==
    /\ is_active(u) /\ is_manager_or_admin(u) /\ UpdateValid(b)
    /\ rid \in DOMAIN requests

review_under_fault(u, rid, b, loaded, f) ==
    IF ~ReviewAccepted(u, rid, b) THEN review_vacation_request(u, rid, b, loaded)
    ELSE StoreAndNotifyUnderFault("review", u, rid, b, u, loaded, f)

\* the faults that can strike while the service walks em: one of its rows
\* or one of its jobs; a call that notifies nothing meets none
FaultsOn(em) == {f \in Faults : f = NoFault \/ f.at <= Len(em)}

CreateFaults(u, b) ==
    IF CreateAccepted(u, b)
    THEN FaultsOn(notify_new_request(nextRequestId,
                                     crud_create_vacation_request(b, u), ManagerIds))
    ELSE {NoFault}

StatusChangeFaults(accepted, rid, b, reviewer_id, loaded) ==
    IF accepted
    THEN LET req == crud_update_vacation_request(requests[rid], b, reviewer_id)
         IN FaultsOn(notify_status_change(rid, req, requests[rid].status, loaded).em)
    ELSE {NoFault}

FaultyCreateStep ==
    \E u \in UserIds : \E b \in BodiesRead(is_active(u), CreateBodies) :
        \E f \in CreateFaults(u, b) : create_under_fault(u, b, f)
FaultyUpdateStep ==
    \E u \in UserIds, rid \in RequestIds :
        \E b \in BodiesRead(is_active(u), UpdateBodies) :
            \E loaded \in LoadChoices(u, rid, b) :
                \E f \in StatusChangeFaults(UpdateAccepted(u, rid, b), rid, b,
                                           IF is_manager_or_admin(u) THEN u ELSE NoId,
                                           loaded) :
                    update_under_fault(u, rid, b, loaded, f)
FaultyReviewStep ==
    \E u \in UserIds, rid \in RequestIds :
        \E b \in BodiesRead(is_active(u) /\ is_manager_or_admin(u), UpdateBodies) :
            \E loaded \in LoadChoices(u, rid, b) :
                \E f \in StatusChangeFaults(ReviewAccepted(u, rid, b), rid, b, u, loaded) :
                    review_under_fault(u, rid, b, loaded, f)

FaultNext ==
    \/ Open /\ FaultyCreateStep /\ Handled
    \/ Open /\ FaultyUpdateStep /\ Handled
    \/ Open /\ FaultyReviewStep /\ Handled

FaultSpec == Init /\ [][FaultNext]_vars

\* C11: whatever notification row fails to persist and whatever delivery job
\* fails to enqueue, a POST, PUT or PUT .../review that has committed its
\* change to the request answers with its success response (the status the
\* stored row is returned with), the requester's row being in the session.
C11_NotificationFailureNeverFailsCall ==
    [][\A f \in Faults :
         /\ \A b \in CreateBodies :
               (CreateAccepted(last'.caller, b) /\ create_under_fault(last'.caller, b, f))
               => last'.code = ResponseCode(requests'[last'.rid])
         /\ \A b \in UpdateBodies :
               (/\ UpdateAccepted(last'.caller, last'.rid, b)
                /\ update_under_fault(last'.caller, last'.rid, b, TRUE, f))
               => last'.code = ResponseCode(requests'[last'.rid])
         /\ \A b \in UpdateBodies :
               (/\ ReviewAccepted(last'.caller, last'.rid, b)
                /\ review_under_fault(last'.caller, last'.rid, b, TRUE, f))
               => last'.code = ResponseCode(requests'[last'.rid])]_vars


(* ========================= /notifications endpoints ==================== *)
\* get_user_notifications: limit defaults to 100
PageLimit == 100
\* mark_all_as_read asks for at most 1000 unread rows
MarkAllLimit == 1000

\* order_by(created_at.desc()).limit(k): created_at is taken when the row
\* is inserted, so the newest rows are those with the highest keys
Newest(S, k) ==
    IF Cardinality(S) <= k THEN S
    ELSE {n \in S : Cardinality({m \in S : m.id > n.id}) < k}

\* crud.notification.get_user_notifications (skip = 0)
get_user_notifications(user_id, limit, unread_only) ==
    Newest({n \in notifications :
              n.user_id = user_id /\ (unread_only => n.read = FALSE)}, limit)

\* every row of the user is counted, read or not
get_unread_count_all(user_id) ==
    Cardinality({n \in notifications : n.user_id = user_id})

\* crud.notification.get_unread_count
get_unread_count(user_id) ==
    Cardinality({n \in notifications : n.user_id = user_id /\ n.read = FALSE})

\* crud.notification.update_notification: fields that are set and not None
update_notification(db_obj, obj_in) ==
    IF obj_in.read \in {Unset, Null} THEN db_obj
    ELSE [db_obj EXCEPT !.read = (obj_in.read = "true")]

\* crud.notification.mark_all_as_read: the rows after the call, and the
\* number it returns
mark_all_as_read(user_id) ==
    LET hit == get_user_notifications(user_id, MarkAllLimit, TRUE)
    IN [rows |-> {IF n \in hit THEN [n EXCEPT !.read = TRUE] ELSE n : n \in notifications},
        count |-> Cardinality(hit)]

\* a call answered with an error: no table changes and no data is returned
Refuse(op, u, id, code) == Answer(op, u, id, code) /\ body' = Null

\* a call that changes the notifications table at most
Reply(op, u, id, code, rows, data) ==
    /\ notifications' = rows
    /\ last' = Call(op, u, id, code)
    /\ body' = data
    /\ UNCHANGED <<users, requests, nextRequestId, nextNotificationId, jobs>>

\* the row with key id, as a set: empty when there is none
get_notification(id) == {n \in notifications : n.id = id}

\* NotificationCreate bodies a client sends
NotificationBodies ==
    [user_id : {1, 3}, type : {"other"}, message : {"m"},
     related_request_id : {NoId}, read : {Null, "true", "false"}]
\* NotificationUpdate bodies
ReadEdits == [read : {Unset, Null, "true", "false"}]

\* POST /notifications/: any authenticated caller, for any user_id; the
\* delivery job is sent by a background task after the response
create_user_notification(u, obj_in) ==
    LET n == create_notification(nextNotificationId, obj_in)
    IN /\ nextNotificationId <= MaxNotifications
       /\ notifications' = notifications \cup {n}
       /\ nextNotificationId' = nextNotificationId + 1
       /\ jobs' = Append(jobs, [user_id |-> Str(n.user_id), type |-> Str(n.type),
                                message |-> n.message, related_request_id |-> Null])
       /\ last' = Call("notify", u, n.id, 201)
       /\ body' = n
       /\ UNCHANGED <<users, requests, nextRequestId>>

\* PUT /notifications/{id}: the row is looked up among the caller's own
update_user_notification(u, id, obj_in) ==
    LET found == {n \in get_user_notifications(u, PageLimit, FALSE) : n.id = id}
    IN IF found = {} THEN Refuse("put", u, id, 404)
       ELSE LET n == CHOOSE x \in found : TRUE
                m == update_notification(n, obj_in)
            IN Reply("put", u, id, 200, (notifications \ {n}) \cup {m}, m)

\* DELETE /notifications/{id}: same lookup
delete_user_notification(u, id) ==
    LET found == {n \in get_user_notifications(u, PageLimit, FALSE) : n.id = id}
    IN IF found = {} THEN Refuse("remove", u, id, 404)
       ELSE Reply("remove", u, id, 204, notifications \ found, Null)

\* GET /notifications/unread-count
read_unread_count(u) ==
    IF ~is_active(u) THEN Refuse("unread_count", u, NoId, 403)
    ELSE Reply("unread_count", u, NoId, 200, notifications, get_unread_count(u))

\* GET /notifications/{id}
read_notification(u, id) ==
    IF ~is_active(u) THEN Refuse("get", u, id, 403)
    ELSE IF get_notification(id) = {} THEN Refuse("get", u, id, 404)
    ELSE LET n == CHOOSE x \in get_notification(id) : TRUE
         IN IF n.user_id # u THEN Refuse("get", u, id, 403)
            ELSE Reply("get", u, id, 200, notifications, n)

\* PATCH /notifications/{id}/mark-as-read
mark_notification_as_read(u, id) ==
    IF ~is_active(u) THEN Refuse("mark", u, id, 403)
    ELSE IF get_notification(id) = {} THEN Refuse("mark", u, id, 404)
    ELSE LET n == CHOOSE x \in get_notification(id) : TRUE
             m == [n EXCEPT !.read = TRUE]
         IN IF n.user_id # u THEN Refuse("mark", u, id, 403)
            ELSE Reply("mark", u, id, 200, (notifications \ {n}) \cup {m}, m)

\* PATCH /notifications/mark-all-as-read
mark_all_notifications_as_read(u) ==
    IF ~is_active(u) THEN Refuse("mark_all", u, NoId, 403)
    ELSE LET r == mark_all_as_read(u)
         IN Reply("mark_all", u, NoId, 200, r.rows, r.count)

NotificationIds == 1..MaxNotifications
Served == calls' = calls + 1 /\ UNCHANGED <<nextUserId, inflight, sockets, gateway, settings>>

NotifNext ==
    \/ Open /\ Served
       /\ \E u \in UserIds, b \in NotificationBodies : create_user_notification(u, b)
    \/ Open /\ Served
       /\ \E u \in UserIds, id \in NotificationIds, b \in ReadEdits :
             update_user_notification(u, id, b)
    \/ Open /\ Served
       /\ \E u \in UserIds, id \in NotificationIds : delete_user_notification(u, id)
    \/ Open /\ Served /\ \E u \in UserIds : read_unread_count(u)
    \/ Open /\ Served
       /\ \E u \in UserIds, id \in NotificationIds : read_notification(u, id)
    \/ Open /\ Served
       /\ \E u \in UserIds, id \in NotificationIds : mark_notification_as_read(u, id)
    \/ Open /\ Served /\ \E u \in UserIds : mark_all_notifications_as_read(u)

NotifSpec == Init /\ [][NotifNext]_vars

(* ----------------- a user with many unread notifications --------------- *)
MaxFew == 2
MaxOver == 1
\* the numbers of unread rows tried: a few, and around the limit of
\* mark_all_as_read
UnreadSizes == (0..MaxFew) \cup ((MarkAllLimit - 1)..(MarkAllLimit + MaxOver))

\* user 1 holds unread rows 1..k, then already read rows k+1..k+r
BulkRows(k, r) ==
    {create_notification(i, [NotificationCreate(1, "other", "m", NoId)
                               EXCEPT !.read = IF i <= k THEN "false" ELSE "true"]) :
       i \in 1..(k + r)}

MarkAllInit ==
    \E k \in UnreadSizes, r \in 0..1 :
        /\ users = [u \in UserIds |-> UserRow(u)]
        /\ requests = << >>
        /\ nextRequestId = 1
        /\ notifications = BulkRows(k, r)
        /\ nextNotificationId = k + r + 1
        /\ jobs = << >>
        /\ last = Call("none", NoId, NoId, 0)
        /\ calls = 0
        /\ nextUserId = 5
        /\ inflight = {}
        /\ body = Null
        /\ sockets = << >>
        /\ gateway = Null
        /\ settings = Null

MarkAllNext ==
    \/ Open /\ Served /\ \E u \in UserIds : mark_all_notifications_as_read(u)
    \/ Open /\ Served /\ \E u \in UserIds : read_unread_count(u)

MarkAllSpec == MarkAllInit /\ [][MarkAllNext]_vars

\* C12: a successful mark-all-as-read leaves its caller without unread
\* notifications, a second one by the same caller right after it returns 0,
\* and no row that was read becomes unread.
C12_MarkAllIdempotent ==
    [][(last'.op = "mark_all" /\ last'.code = 200) =>
         /\ \A n \in notifications' : n.user_id = last'.caller => n.read = TRUE
         /\ (last.op = "mark_all" /\ last.code = 200 /\ last.caller = last'.caller)
               => body' = 0
         /\ \A n \in notifications : n.read = TRUE => n \in notifications']_vars


\* C13: whatever creations, updates, mark-as-read, mark-all-as-read and
\* deletions came before, GET /notifications/unread-count returns the number
\* of stored notifications of the caller whose read flag is false.
C13_UnreadCountMatchesTable ==
    [][(last'.op = "unread_count" /\ last'.code = 200) =>
         body' = Cardinality({n \in notifications' :
                                n.user_id = last'.caller /\ n.read = FALSE})]_vars

\* the count is returned to a caller who has an unread and a read notification
C13_Witness ==
    /\ last.op = "unread_count" /\ last.code = 200
    /\ body = 1
    /\ \E n \in notifications : n.user_id = last.caller /\ n.read = TRUE

\* C14: GET, PUT, DELETE and PATCH mark-as-read on a stored notification
\* whose recipient is not the caller are answered 403, return no data and
\* leave the notification as it was.
C14_ForeignNotificationForbidden ==
    [][\A n \in notifications :
         (/\ last'.op \in {"get", "put", "remove", "mark"}
          /\ last'.rid = n.id
          /\ n.user_id # last'.caller)
         => (last'.code = 403 /\ body' = Null /\ n \in notifications')]_vars


(* ============================ users and login ========================== *)
MaxUsers == 5
\* create_user: total_vacation_days or 20
DefaultDays == 20

\* Passwords: "p" is short; "Lx" and "Ly" are longer than 72 bytes and
\* differ only after their first 72 bytes, the text "L"
Passwords == {"p", "Lx", "Ly"}

\* the bytes of a password that bcrypt reads: the first 72
First72(password) == IF password \in {"Lx", "Ly"} THEN "L" ELSE password

\* security.get_password_hash: pwd_context.hash with the bcrypt scheme, which
\* digests the first 72 bytes of the password (the salt is left out: it is
\* stored in the hash and read back by verify)
get_password_hash(password) == [hashed |-> TRUE, of |-> First72(password)]

\* a password column holding the text itself
Plain(password) == [hashed |-> FALSE, of |-> password]

\* security.verify_password, for a stored value that is a hash
verify_password(plain_password, hashed_password) ==
    get_password_hash(plain_password) = hashed_password

\* an email address: user<k>@example.com
Email(k) == <<"user", k>>

\* the users table after construction, with the columns the users and auth
\* endpoints read
AccountRow(u) ==
    [role |-> SeedRole(u), is_active |-> SeedActive(u), is_superuser |-> (u = 1),
     total_vacation_days |-> SeedDays(u), email |-> Email(u),
     password |-> get_password_hash("p"), full_name |-> Null]

UsersInit ==
    /\ users = [u \in UserIds |-> AccountRow(u)]
    /\ requests = << >>
    /\ nextRequestId = 1
    /\ notifications = {}
    /\ nextNotificationId = 1
    /\ jobs = << >>
    /\ last = Call("none", NoId, NoId, 0)
    /\ calls = 0
    /\ nextUserId = 5
    /\ inflight = {}
    /\ body = Null
    /\ sockets = << >>
    /\ gateway = Null
    /\ settings = Null

\* crud.user.get_user_by_email, as the set of matching keys
get_user_by_email(us, email) == {id \in DOMAIN us : us[id].email = email}

\* the stored value is no hash: passlib cannot identify it, and verify raises
VerifyRaises(us, email) ==
    \E id \in get_user_by_email(us, email) : ~us[id].password.hashed

\* crud.user.authenticate_user: the user's key, NoId for None
authenticate_user(us, email, password) ==
    LET found == get_user_by_email(us, email) IN
    IF found = {} THEN NoId
    ELSE LET id == CHOOSE x \in found : TRUE
         IN IF ~verify_password(password, us[id].password) THEN NoId ELSE id

\* deps.get_current_user for a valid token with subject u: the status it
\* raises, 0 when it returns the user
get_current_user(u) == IF u \notin DOMAIN users THEN 404 ELSE 0

\* deps.get_current_active_user
get_current_active_user(u) ==
    IF get_current_user(u) # 0 THEN get_current_user(u)
    ELSE IF users[u].is_active # TRUE THEN 403 ELSE 0

\* deps.get_current_superuser
get_current_superuser(u) ==
    IF get_current_active_user(u) # 0 THEN get_current_active_user(u)
    ELSE IF users[u].is_superuser # TRUE THEN 403 ELSE 0

\* deps.get_current_manager_or_admin
get_current_manager_or_admin(u) ==
    IF get_current_active_user(u) # 0 THEN get_current_active_user(u)
    ELSE IF users[u].role \notin {"manager", "admin"} THEN 403 ELSE 0

\* UserCreate bodies: an address in use and a new one
UserCreateBodies ==
    [email : {Email(1), Email(5)}, password : Passwords, full_name : {Null},
     role : {"employee"}, is_active : {"true"}, is_superuser : {"false"},
     total_vacation_days : {NoId}]

\* UserUpdate bodies, each with the fields the client set: one field, or
\* every field
UserEdits ==
    {[full_name |-> "n"],
     [password |-> "Lx"],
     [password |-> ""],
     [password |-> Null],
     [email |-> Email(1)],
     [is_active |-> "false"],
     [email |-> Email(5), password |-> "Ly", full_name |-> "n",
      role |-> "admin", is_active |-> "true", is_superuser |-> "true",
      total_vacation_days |-> MaxDay]}

\* a JSON true/false as the column stores it
Flag(x) == x = "true"

\* crud.user.update_user: the row after the assignments.  update_data holds
\* the fields that were set; a password that is truthy is hashed first;
\* then every field whose value is not None is assigned
update_user(user, user_in) ==
    LET given(f) == f \in DOMAIN user_in
                    /\ ~(f \in {"password", "full_name"} /\ user_in[f] = Null)
    IN
    [user EXCEPT
       !.email = IF given("email") THEN user_in.email ELSE @,
       !.password = IF ~given("password") THEN @
                    ELSE IF user_in.password # ""
                         THEN get_password_hash(user_in.password)
                    ELSE Plain(user_in.password),
       !.full_name = IF given("full_name") THEN user_in.full_name ELSE @,
       !.role = IF given("role") THEN user_in.role ELSE @,
       !.is_active = IF given("is_active") THEN Flag(user_in.is_active) ELSE @,
       !.is_superuser = IF given("is_superuser") THEN Flag(user_in.is_superuser) ELSE @,
       !.total_vacation_days = IF given("total_vacation_days")
                               THEN user_in.total_vacation_days ELSE @]

\* a users call that changes the users table at most
UsersReply(op, u, id, code, us, data) ==
    /\ users' = us
    /\ last' = Call(op, u, id, code)
    /\ body' = data
    /\ UNCHANGED <<requests, nextRequestId, notifications, nextNotificationId, jobs>>

\* the commit of update_user: the unique index on users.email refuses a
\* second row with the same address, and the call fails
StoreUser(op, u, id, row) ==
    IF get_user_by_email(users, row.email) \ {id} # {}
    THEN UsersReply(op, u, id, 500, users, Null)
    ELSE UsersReply(op, u, id, 200, [users EXCEPT ![id] = row], row)

\* every submitted field is passed on
allowed_fields_all ==
    {"full_name", "password", "role"}

\* update_user_me line 113
allowed_fields == {"full_name", "password"}

\* PUT /users/me
update_user_me(u, user_in) ==
    IF get_current_active_user(u) # 0
    THEN UsersReply("put_me", u, u, get_current_active_user(u), users, Null)
    ELSE LET restricted_data ==
                 [f \in DOMAIN user_in \cap allowed_fields |-> user_in[f]]
         IN StoreUser("put_me", u, u, update_user(users[u], restricted_data))

\* GET /users/me
read_user_me(u) ==
    IF get_current_active_user(u) # 0
    THEN UsersReply("get_me", u, u, get_current_active_user(u), users, Null)
    ELSE UsersReply("get_me", u, u, 200, users, users[u])

\* PUT /users/{user_id}
update_specific_user(u, user_id, user_in) ==
    IF get_current_manager_or_admin(u) # 0
    THEN UsersReply("put_user", u, user_id, get_current_manager_or_admin(u), users, Null)
    ELSE IF user_id \notin DOMAIN users
         THEN UsersReply("put_user", u, user_id, 404, users, Null)
    ELSE StoreUser("put_user", u, user_id, update_user(users[user_id], user_in))

\* db.delete(user) detaches the user's notifications and requests (no
\* delete cascade), whose user columns are not nullable: the commit fails
HasRows(user_id) ==
    \/ \E n \in notifications : n.user_id = user_id
    \/ \E r \in DOMAIN requests : requests[r].requester_id = user_id

\* DELETE /users/{user_id}
delete_specific_user(u, user_id) ==
    IF get_current_superuser(u) # 0
    THEN UsersReply("delete_user", u, user_id, get_current_superuser(u), users, Null)
    ELSE IF user_id = u THEN UsersReply("delete_user", u, user_id, 400, users, Null)
    ELSE IF user_id \notin DOMAIN users
         THEN UsersReply("delete_user", u, user_id, 404, users, Null)
    ELSE IF HasRows(user_id) THEN UsersReply("delete_user", u, user_id, 500, users, Null)
    ELSE UsersReply("delete_user", u, user_id, 200,
                    [i \in DOMAIN users \ {user_id} |-> users[i]], users[user_id])

\* POST /auth/login
login_access_token(email, password) ==
    LET user == authenticate_user(users, email, password) IN
    IF VerifyRaises(users, email) THEN UsersReply("login", NoId, NoId, 500, users, Null)
    ELSE IF user = NoId THEN UsersReply("login", NoId, NoId, 401, users, Null)
    ELSE UsersReply("login", NoId, user, 200, users, [sub |-> Str(user)])

\* POST /users/, up to the email test of create_user: refused, or on its
\* way to the insert
create_new_user(u, user_in) ==
    IF get_current_superuser(u) # 0
    THEN UsersReply("create_user", u, NoId, get_current_superuser(u), users, Null)
         /\ UNCHANGED <<nextUserId, inflight>>
    ELSE IF get_user_by_email(users, user_in.email) # {}
         THEN UsersReply("create_user", u, NoId, 400, users, Null)
              /\ UNCHANGED <<nextUserId, inflight>>
    ELSE /\ inflight' = inflight \cup {[caller |-> u, user_in |-> user_in]}
         /\ UNCHANGED <<users, requests, nextRequestId, notifications,
                        nextNotificationId, jobs, last, body, nextUserId>>

\* crud.user.create_user from db.add on: the insert commits unless the
\* address was taken meanwhile; IntegrityError is no ValueError, so the
\* endpoint does not turn it into 400
create_user(c) ==
    LET id == nextUserId
        row == [email |-> c.user_in.email,
                password |-> get_password_hash(c.user_in.password),
                full_name |-> c.user_in.full_name, role |-> c.user_in.role,
                is_active |-> Flag(c.user_in.is_active),
                is_superuser |-> Flag(c.user_in.is_superuser),
                total_vacation_days |-> IF c.user_in.total_vacation_days = NoId
                                        THEN DefaultDays
                                        ELSE c.user_in.total_vacation_days]
    IN /\ c \in inflight
       /\ inflight' = inflight \ {c}
       /\ IF get_user_by_email(users, row.email) # {}
          THEN UsersReply("create_user", c.caller, NoId, 500, users, Null)
               /\ UNCHANGED nextUserId
          ELSE /\ id <= MaxUsers
               /\ UsersReply("create_user", c.caller, id, 200,
                             [i \in DOMAIN users \cup {id} |->
                                IF i = id THEN row ELSE users[i]], row)
               /\ nextUserId' = id + 1

\* the holders of a valid token: every key issued so far
Subjects == 1..(nextUserId - 1)
Began == calls' = calls + 1 /\ UNCHANGED <<sockets, gateway, settings>>

UsersNext ==
    \/ Open /\ Began
       /\ \E u \in Subjects, b \in UserCreateBodies : create_new_user(u, b)
    \/ UNCHANGED <<calls, sockets, gateway, settings>> /\ \E c \in inflight : create_user(c)
    \/ Open /\ Served /\ \E u \in Subjects, b \in UserEdits : update_user_me(u, b)
    \/ Open /\ Served /\ \E u \in Subjects : read_user_me(u)
    \/ Open /\ Served
       /\ \E u \in Subjects, id \in 1..MaxUsers, b \in UserEdits :
             update_specific_user(u, id, b)
    \/ Open /\ Served
       /\ \E u \in Subjects, id \in 1..MaxUsers : delete_specific_user(u, id)
    \/ Open /\ Served
       /\ \E e \in {Email(1), Email(5)}, p \in Passwords : login_access_token(e, p)

UsersSpec == UsersInit /\ [][UsersNext]_vars


\* C15: DELETE /users/{id} by a user whose own key is id is answered 400,
\* and the caller's row stays, whoever the caller is.
C15_SelfDeleteAlways400 ==
    [][(/\ last'.op = "delete_user" /\ calls' = calls + 1
        /\ last'.caller \in DOMAIN users
        /\ last'.rid = last'.caller)
       => (last'.code = 400 /\ last'.caller \in DOMAIN users')]_vars

\* C16: PUT /users/me leaves the caller's email, role, is_active,
\* is_superuser and total_vacation_days, and every other user's row, as
\* they were, whatever fields the body sets.
C16_UpdateMeFrame ==
    [][(last'.op = "put_me" /\ calls' = calls + 1) =>
         /\ DOMAIN users' = DOMAIN users
         /\ \A id \in DOMAIN users :
              IF id # last'.caller THEN users'[id] = users[id]
              ELSE /\ users'[id].email = users[id].email
                   /\ users'[id].role = users[id].role
                   /\ users'[id].is_active = users[id].is_active
                   /\ users'[id].is_superuser = users[id].is_superuser
                   /\ users'[id].total_vacation_days = users[id].total_vacation_days]_vars

\* a PUT /users/me has stored the caller's new full name and password
C16_Witness ==
    /\ last.op = "put_me" /\ last.code = 200
    /\ users[last.caller].full_name = "n"
    /\ users[last.caller].password = get_password_hash("Ly")
    /\ users[last.caller].role = "employee"

\* C17: every stored user password is an output of the hash function.
C17_PasswordsAreHashes == \A id \in DOMAIN users : users[id].password.hashed

\* C18: once POST /users/ has created a user with email e and password p,
\* authenticate_user(e, p) returns that user and authenticate_user(e, q)
\* returns no user for every other password q.
C18_AuthenticateRoundTrip ==
    [][\A c \in inflight :
         (c \notin inflight' /\ last'.op = "create_user" /\ last'.code = 200)
         => \A q \in Passwords :
               authenticate_user(users', c.user_in.email, q)
                 = IF q = c.user_in.password THEN last'.rid ELSE NoId]_vars

\* C19: a POST /users/ whose email a stored user holds when the call is
\* answered gets 400 and adds no user, be it alone or one of two creations
\* in flight; and no two stored users share an email.
C19_DuplicateEmailRefused ==
    [][/\ \A b \in UserCreateBodies :
            (/\ get_current_superuser(last'.caller) = 0
             /\ get_user_by_email(users, b.email) # {}
             /\ create_new_user(last'.caller, b))
            => (last'.code = 400 /\ users' = users)
       /\ \A c \in inflight :
            (c \notin inflight' /\ get_user_by_email(users, c.user_in.email) # {})
            => (last'.code = 400 /\ users' = users)
       /\ \A i, j \in DOMAIN users' :
            users'[i].email = users'[j].email => i = j]_vars

\* C20: a call to a protected endpoint with a valid token whose subject is
\* no stored user is answered 401.
C20_UnknownSubjectIs401 ==
    [][(/\ calls' = calls + 1
        /\ last'.op \in {"create_user", "put_me", "get_me", "put_user", "delete_user"}
        /\ last' # last
        /\ last'.caller \notin DOMAIN users)
       => last'.code = 401]_vars

(* ------------------------- WebSocket gateway --------------------------- *)
\* api/api_v1/endpoints/websockets.py: the handler of /ws/notifications and
\* the WebSocketManager it registers sockets with.

MaxSockets == 3      \* WebSocket connections opened
MaxMessages == 2     \* messages the listeners are handed

\* a JSON frame the server sends: an error, the connected confirmation (n is
\* the user's id) or a broadcast payload (n numbers the message)
Frame(kind, detail, n) == [kind |-> kind, detail |-> detail, n |-> n]

\* WebSocketManager.__init__, and the listener tasks the manager started:
\* user_id, position (created, listening, sending, done), cancel requested,
\* the subscription it opened still open, and the broadcast it is in
\* (index of the next socket, message, sockets whose send failed, the list
\* the broadcast began with) and the payloads Redis holds for it, not yet
\* read; published is the log of the payloads published so far, each with
\* its user_id and the sockets of that user registered and open then
WebSocketManager ==
    [active_connections |-> << >>, redis_clients |-> {}, redis_tasks |-> << >>,
     tasks |-> << >>, published |-> << >>]

\* WebSocketManager.connect: accept, which raises on a socket that was
\* accepted before; append to the user's list; the first socket of a user
\* creates the Redis client and starts the listener task
connect(g, accepted, websocket, user_id) ==
    IF accepted
    THEN [raised |-> TRUE, gateway |-> g]
    ELSE
      LET had == IF user_id \in DOMAIN g.active_connections
                 THEN g.active_connections[user_id] ELSE << >>
          listed == [g EXCEPT !.active_connections =
                       [x \in DOMAIN @ \cup {user_id} |->
                          IF x = user_id THEN Append(had, websocket) ELSE @[x]]]
          task == [user_id |-> user_id, pc |-> "created", cancelled |-> FALSE,
                   subscribed |-> FALSE, i |-> 0, message |-> 0,
                   failed |-> << >>, snapshot |-> << >>, inbox |-> << >>]
      IN [raised |-> FALSE,
          gateway |->
            IF user_id \in DOMAIN g.redis_tasks
            THEN listed
            ELSE [listed EXCEPT
                    !.redis_clients = @ \cup {user_id},
                    !.tasks = Append(@, task),
                    !.redis_tasks = [x \in DOMAIN @ \cup {user_id} |->
                                       IF x = user_id THEN Len(g.tasks) + 1 ELSE @[x]]]]

disconnect_listed(g, websocket, user_id) ==
    IF user_id \notin DOMAIN g.active_connections
    THEN g
    ELSE [g EXCEPT !.active_connections[user_id] = SelectSeq(@, LAMBDA w : w # websocket)]

\* WebSocketManager.disconnect: remove the socket; with the list empty,
\* cancel and drop the listener task, close and drop the client, drop the list
disconnect(g, websocket, user_id) ==
    IF user_id \notin DOMAIN g.active_connections
    THEN g
    ELSE
      LET rest == SelectSeq(g.active_connections[user_id], LAMBDA w : w # websocket)
      IN IF rest # << >>
         THEN [g EXCEPT !.active_connections[user_id] = rest]
         ELSE [g EXCEPT
                 !.tasks = IF user_id \in DOMAIN g.redis_tasks
                           THEN [@ EXCEPT ![g.redis_tasks[user_id]].cancelled = TRUE]
                           ELSE @,
                 !.redis_tasks = [x \in DOMAIN @ \ {user_id} |-> @[x]],
                 !.redis_clients = @ \ {user_id},
                 !.active_connections = [x \in DOMAIN @ \ {user_id} |-> @[x]]]

get_user_from_token_any(token) ==
    IF ~token.valid THEN "No se pudo validar el token" ELSE ""

\* get_user_from_token: the detail of the HTTPException it raises, "" when
\* it returns the user (token.valid: the JWT decodes and carries a subject)
get_user_from_token(token) ==
    IF ~token.valid THEN "No se pudo validar el token"
    ELSE IF token.sub \notin DOMAIN users THEN "Usuario no encontrado"
    ELSE ""

\* first frames of a client: kind "gone" is a client that disconnects before
\* sending; given is whether the JSON carries a non-empty token
FirstFrames ==
    {[kind |-> "gone", given |-> FALSE, valid |-> FALSE, sub |-> NoId],
     [kind |-> "auth", given |-> FALSE, valid |-> FALSE, sub |-> NoId],
     [kind |-> "auth", given |-> TRUE, valid |-> FALSE, sub |-> NoId]}
    \cup {[kind |-> "auth", given |-> TRUE, valid |-> TRUE, sub |-> s] : s \in {1, 4, 5}}

\* websocket_notifications, from accept to the receive loop or to its return
websocket_notifications(ws, f) ==
    LET closed(user_id, frames) ==
            sockets' = [sockets EXCEPT ![ws] =
                          [state |-> "closed", user_id |-> user_id, frames |-> frames]]
        c == connect(gateway, TRUE, ws, f.sub)
        confirmed == <<Frame("connected", "", f.sub)>>
    IN /\ sockets[ws].state = "connecting"
       /\ IF f.kind = "gone"
          THEN closed(NoId, << >>) /\ UNCHANGED gateway
          ELSE IF ~f.given
          THEN closed(NoId, <<Frame("error", "Token no proporcionado", 0)>>)
               /\ UNCHANGED gateway
          ELSE IF get_user_from_token(f) # ""
          THEN closed(NoId, <<Frame("error", get_user_from_token(f), 0)>>)
               /\ UNCHANGED gateway
          ELSE IF c.raised
          THEN closed(f.sub, Append(confirmed, Frame("error", "accept", 0)))
               /\ UNCHANGED gateway
          ELSE /\ sockets' = [sockets EXCEPT ![ws] =
                                [state |-> "open", user_id |-> f.sub, frames |-> confirmed]]
               /\ gateway' = c.gateway
       /\ UNCHANGED <<users, requests, nextRequestId, notifications, nextNotificationId,
                      jobs, last, calls, nextUserId, inflight, body, settings>>

GatewayInit ==
    /\ users = [u \in UserIds |-> UserRow(u)]
    /\ requests = << >>
    /\ nextRequestId = 1
    /\ notifications = {}
    /\ nextNotificationId = 1
    /\ jobs = << >>
    /\ last = Call("none", NoId, NoId, 0)
    /\ calls = 0
    /\ nextUserId = 5
    /\ inflight = {}
    /\ body = Null
    /\ sockets = [ws \in 1..MaxSockets |->
                    [state |-> "connecting", user_id |-> NoId, frames |-> << >>]]
    /\ gateway = WebSocketManager
    /\ settings = Null

GatewayNext == \E ws \in 1..MaxSockets, f \in FirstFrames : websocket_notifications(ws, f)

GatewaySpec == GatewayInit /\ [][GatewayNext]_vars

\* the sockets in the connection table
Registered(g) ==
    UNION {{g.active_connections[u][k] : k \in DOMAIN g.active_connections[u]} :
             u \in DOMAIN g.active_connections}

\* websocket_notifications once the socket is registered: the receive loop
\* ends by WebSocketDisconnect, which calls manager.disconnect, or by any
\* other exception, which tries to send an error frame and closes
handler_ends(ws, how) ==
    /\ sockets[ws].state = "open"
    /\ IF how = "disconnect"
       THEN /\ gateway' = disconnect(gateway, ws, sockets[ws].user_id)
            /\ sockets' = [sockets EXCEPT ![ws].state = "closed"]
       ELSE /\ UNCHANGED gateway
            /\ sockets' = [sockets EXCEPT ![ws].state = "closed",
                                          ![ws].frames = Append(@, Frame("error", "receive", 0))]
    /\ UNCHANGED <<users, requests, nextRequestId, notifications, nextNotificationId,
                   jobs, last, calls, nextUserId, inflight, body, settings>>

\* WebSocketManager.subscribe_to_redis outside a broadcast, one await at a
\* time: a cancelled task ends in its CancelledError handler, which
\* unsubscribes a pubsub object made anew from the client the user has then
\* (a task cancelled before its first step never runs); a created task
\* subscribes its pubsub to the user's channel; a listening task reads
\* the next payload of its subscription and enters broadcast_to_user, or
\* leaves the loop when the user has no list
subscribe_to_redis(t) ==
    LET T == gateway.tasks[t]
        m == Head(T.inbox)
    IN /\ T.pc # "done"
       /\ (T.cancelled \/ T.pc = "created"
             \/ (T.pc = "listening" /\ T.inbox # << >>))
       /\ gateway' =
            IF T.cancelled
            THEN [gateway EXCEPT !.tasks[t] =
                    [T EXCEPT !.pc = "done", !.i = 0, !.message = 0, !.failed = << >>,
                              !.snapshot = << >>, !.inbox = << >>]]
            ELSE IF T.pc = "created"
            THEN [gateway EXCEPT !.tasks[t].pc = "listening", !.tasks[t].subscribed = TRUE]
            ELSE IF T.user_id \in DOMAIN gateway.active_connections
            THEN [gateway EXCEPT
                    !.tasks[t] = [T EXCEPT !.pc = "sending", !.i = 1, !.message = m,
                                           !.failed = << >>, !.inbox = Tail(@),
                                           !.snapshot = gateway.active_connections[T.user_id]]]
            ELSE [gateway EXCEPT !.tasks[t].pc = "done", !.tasks[t].inbox = << >>]
       /\ UNCHANGED <<users, requests, nextRequestId, notifications, nextNotificationId,
                      jobs, last, calls, nextUserId, inflight, body, sockets, settings>>

\* WebSocketManager.broadcast_to_user inside the listener, one await at a
\* time: the for loop takes the next element of the user's list as the list
\* is now and sends to it (ok: the send does not raise); past the end of the
\* list the sockets whose send raised are disconnected, and the listener
\* goes on listening, or leaves its loop when the user has no list any more
broadcast_to_user(t, ok) ==
    LET T == gateway.tasks[t]
        list == IF T.user_id \in DOMAIN gateway.active_connections
                THEN gateway.active_connections[T.user_id] ELSE << >>
        ws == list[T.i]
        RECURSIVE dropped(_, _)
        dropped(g, k) == IF k > Len(T.failed) THEN g
                         ELSE dropped(disconnect(g, T.failed[k], T.user_id), k + 1)
        after == dropped(gateway, 1)
    IN /\ T.pc = "sending" /\ ~T.cancelled
       /\ IF T.i <= Len(list)
          THEN IF ok /\ sockets[ws].state = "open"
               THEN /\ sockets' = [sockets EXCEPT ![ws].frames =
                                     Append(@, Frame("message", "", T.message))]
                    /\ gateway' = [gateway EXCEPT !.tasks[t].i = T.i + 1]
               ELSE /\ UNCHANGED sockets
                    /\ gateway' = [gateway EXCEPT !.tasks[t].i = T.i + 1,
                                                  !.tasks[t].failed = Append(@, ws)]
          ELSE /\ UNCHANGED sockets
               /\ gateway' = [after EXCEPT !.tasks[t] =
                                IF T.user_id \in DOMAIN after.active_connections
                                THEN [@ EXCEPT !.pc = "listening", !.i = 0, !.message = 0,
                                               !.failed = << >>, !.snapshot = << >>]
                                ELSE [@ EXCEPT !.pc = "done", !.i = 0, !.message = 0,
                                               !.failed = << >>, !.snapshot = << >>,
                                               !.inbox = << >>]]
       /\ UNCHANGED <<users, requests, nextRequestId, notifications, nextNotificationId,
                      jobs, last, calls, nextUserId, inflight, body, settings>>

channel_shared(user_id) == <<"user", "notifications">>

\* the Redis channel of a user, as the delivery task and the listener name it
channel(user_id) == <<"user", user_id, "notifications">>

\* worker.send_notification_task: publish the payload on the user's channel;
\* Redis hands it to the subscriptions open on that channel at that moment
\* and keeps it for nobody else (m numbers the payload)
send_notification_task(user_id) ==
    LET m == Len(gateway.published) + 1
        open == {ws \in Registered(gateway) :
                    sockets[ws].user_id = user_id /\ sockets[ws].state = "open"}
    IN /\ m <= MaxMessages
       /\ gateway' = [gateway EXCEPT
            !.published = Append(@, [user_id |-> user_id, sockets |-> open]),
            !.tasks = [t \in DOMAIN @ |->
                         IF @[t].subscribed /\ @[t].pc # "done"
                            /\ channel(@[t].user_id) = channel(user_id)
                         THEN [@[t] EXCEPT !.inbox = Append(@, m)] ELSE @[t]]]
       /\ UNCHANGED <<users, requests, nextRequestId, notifications, nextNotificationId,
                      jobs, last, calls, nextUserId, inflight, body, sockets, settings>>

\* the manager driven through its methods: connect is called with a socket
\* that was not accepted before; the last socket is user 2's, the others
\* are user 1's, and they connect in any order
ManagerNext ==
    \/ \E ws \in 1..MaxSockets :
          LET u == IF ws = MaxSockets THEN 2 ELSE 1
          IN /\ sockets[ws].state = "connecting"
             /\ gateway' = connect(gateway, FALSE, ws, u).gateway
             /\ sockets' = [sockets EXCEPT ![ws].state = "open", ![ws].user_id = u]
          /\ UNCHANGED <<users, requests, nextRequestId, notifications, nextNotificationId,
                         jobs, last, calls, nextUserId, inflight, body, settings>>
    \/ \E ws \in 1..MaxSockets, how \in {"disconnect", "error"} : handler_ends(ws, how)
    \/ \E t \in DOMAIN gateway.tasks : subscribe_to_redis(t)
    \/ \E t \in DOMAIN gateway.tasks, ok \in BOOLEAN : broadcast_to_user(t, ok)
    \/ \E u \in {1, 2} : send_notification_task(u)

ManagerSpec == GatewayInit /\ [][ManagerNext]_vars

\* C21: a handshake whose first frame carries no token, an invalid token or
\* the token of an unknown user is answered with one error frame and nothing
\* else, the connection is closed, the socket is in no list of the connection
\* table and no listener task is started; a socket that never authenticated
\* is at no point in the table.
C21_RefusedHandshakeLeavesNoTrace ==
    [][/\ \A ws \in 1..MaxSockets, f \in FirstFrames :
            (/\ f.kind = "auth"
             /\ (~f.given \/ ~f.valid \/ f.sub \notin DOMAIN users)
             /\ websocket_notifications(ws, f))
            => /\ sockets'[ws].state = "closed"
               /\ Len(sockets'[ws].frames) = 1
               /\ sockets'[ws].frames[1].kind = "error"
               /\ ws \notin Registered(gateway')
               /\ gateway'.tasks = gateway.tasks
               /\ gateway'.redis_tasks = gateway.redis_tasks
       /\ \A ws \in 1..MaxSockets :
            sockets'[ws].user_id = NoId => ws \notin Registered(gateway')]_vars

C21_Witness ==
    \E ws \in 1..MaxSockets :
        /\ sockets[ws].state = "closed"
        /\ sockets[ws].frames = <<Frame("error", "Usuario no encontrado", 0)>>

\* C22: a handshake whose first frame carries a valid token of a stored user
\* is answered with the connected confirmation carrying that user's id, and
\* the socket is then in that user's list of the connection table.
C22_ValidHandshakeRegisters ==
    [][\A ws \in 1..MaxSockets, f \in FirstFrames :
          (/\ f.kind = "auth" /\ f.given /\ f.valid /\ f.sub \in DOMAIN users
           /\ websocket_notifications(ws, f))
          => /\ sockets'[ws].frames = <<Frame("connected", "", f.sub)>>
             /\ f.sub \in DOMAIN gateway'.active_connections
             /\ ws \in Registered(gateway')]_vars

\* C23: when the handler of a registered socket ends, by the client's
\* disconnect or by an unexpected error, the socket is in no list of the
\* connection table afterwards.
C23_EndedHandlerLeavesTable ==
    [][\A ws \in 1..MaxSockets :
          (/\ ws \in Registered(gateway)
           /\ sockets[ws].state = "open"
           /\ sockets'[ws].state = "closed")
          => ws \notin Registered(gateway')]_vars

\* C26: after every step of the gateway the users with a list in the
\* connection table, the users with a pub/sub client and the users with a
\* registered listener task are the same users, every list holds a socket,
\* the registered task of a user is that user's, neither cancelled nor
\* ended, and every task neither cancelled nor ended is its user's
\* registered one; a step starts a listener only for a user that had none,
\* a user that keeps a listener keeps the same one, and a user that loses
\* the last socket has the listener cancelled or ended and the client dropped.
C26_OneListenerIffSockets ==
    [][LET g == gateway'
           live(T) == ~T.cancelled /\ T.pc # "done"
       IN /\ DOMAIN g.active_connections = DOMAIN g.redis_tasks
          /\ DOMAIN g.active_connections = g.redis_clients
          /\ \A u \in DOMAIN g.active_connections :
                /\ g.active_connections[u] # << >>
                /\ g.tasks[g.redis_tasks[u]].user_id = u
                /\ live(g.tasks[g.redis_tasks[u]])
          /\ \A t \in DOMAIN g.tasks :
                live(g.tasks[t]) =>
                    /\ g.tasks[t].user_id \in DOMAIN g.redis_tasks
                    /\ g.redis_tasks[g.tasks[t].user_id] = t
          /\ \A t \in DOMAIN g.tasks \ DOMAIN gateway.tasks :
                /\ t = Len(gateway.tasks) + 1
                /\ g.tasks[t].user_id \notin DOMAIN gateway.redis_tasks
          /\ \A u \in DOMAIN gateway.redis_tasks :
                IF u \in DOMAIN g.redis_tasks
                THEN g.redis_tasks[u] = gateway.redis_tasks[u]
                ELSE /\ ~live(g.tasks[gateway.redis_tasks[u]])
                     /\ u \notin g.redis_clients]_vars

\* two sockets of one user share the listener the first started, and a
\* user whose only socket disconnected has the listener cancelled
C26_Witness ==
    /\ \E u \in DOMAIN gateway.active_connections :
          Len(gateway.active_connections[u]) = 2
    /\ \E t \in DOMAIN gateway.tasks :
          /\ gateway.tasks[t].cancelled
          /\ gateway.tasks[t].user_id \notin DOMAIN gateway.active_connections

\* C27: when a broadcast of the listener of user U ends, every socket that
\* was in U's list when the broadcast began, is still in it and is open has
\* been sent the message exactly once (a send that raised counts as sent).
C27_BroadcastReachesEverySocket ==
    [][\A t \in DOMAIN gateway.tasks :
          LET T == gateway.tasks[t]
              sends(ws) ==
                  Len(SelectSeq(sockets[ws].frames,
                                LAMBDA fr : fr.kind = "message" /\ fr.n = T.message))
                  + Len(SelectSeq(T.failed, LAMBDA w : w = ws))
          IN (T.pc = "sending" /\ ~T.cancelled /\ gateway'.tasks[t].pc # "sending")
             => \A ws \in 1..MaxSockets :
                   (/\ \E k \in DOMAIN T.snapshot : T.snapshot[k] = ws
                    /\ ws \in Registered(gateway)
                    /\ sockets[ws].state = "open")
                   => sends(ws) = 1]_vars

\* C28: when a broadcast in which a send failed ends, exactly the sockets
\* whose send failed leave the connection table, every other socket of the
\* user that the broadcast began with and that is still registered has been
\* sent the message, and the listener goes on listening if the user still
\* has a socket.
C28_FailedSendRemovesOnlyThatSocket ==
    [][\A t \in DOMAIN gateway.tasks :
          LET T == gateway.tasks[t]
              failed == {T.failed[k] : k \in DOMAIN T.failed}
              got(ws) == \E k \in DOMAIN sockets[ws].frames :
                            /\ sockets[ws].frames[k].kind = "message"
                            /\ sockets[ws].frames[k].n = T.message
          IN (/\ T.pc = "sending" /\ ~T.cancelled /\ gateway'.tasks[t].pc # "sending"
              /\ failed # {})
             => /\ Registered(gateway') = Registered(gateway) \ failed
                /\ \A ws \in Registered(gateway') :
                      (\E k \in DOMAIN T.snapshot : T.snapshot[k] = ws) => got(ws)
                /\ T.user_id \in DOMAIN gateway'.active_connections
                      => gateway'.tasks[t].pc = "listening"]_vars

\* C29: a listener task that was cancelled after it subscribed has, when
\* it ends, unsubscribed the subscription it opened.
C29_CancelledListenerUnsubscribes ==
    [][\A t \in DOMAIN gateway.tasks :
          (/\ gateway.tasks[t].cancelled
           /\ gateway.tasks[t].subscribed
           /\ gateway.tasks[t].pc # "done"
           /\ gateway'.tasks[t].pc = "done")
          => ~gateway'.tasks[t].subscribed]_vars

(* ---------------------------- configuration ---------------------------- *)
\* core/config.py: Settings() is built once from the environment at import.
\* A secret key is modelled by its length and by where it comes from.

MaxKeyLen == 33        \* longest SECRET_KEY the environment gives
MinKeyLen == 32        \* set_secret_key: len(v) < 32
DefaultKeyLen == 43    \* len(secrets.token_urlsafe(32))

\* Settings.set_secret_key (pre=True, always=True): v is the value of the
\* environment or, the variable missing, the field's default
set_secret_key(v, values) ==
    IF v.len = 0 \/ v.len < MinKeyLen
    THEN IF values.ENVIRONMENT = "production"
         THEN [raised |-> TRUE, value |-> v]
         ELSE [raised |-> FALSE, value |-> [source |-> "generated", len |-> DefaultKeyLen]]
    ELSE [raised |-> FALSE, value |-> v]

\* Settings(): fields in declaration order, each validator seeing the fields
\* before it; a missing ENVIRONMENT is "production", a missing SECRET_KEY is
\* the class default secrets.token_urlsafe(32); DATABASE_URL and REDIS_URL
\* are required, and production wants an asyncpg URL
Settings(env) ==
    LET values == [ENVIRONMENT |-> IF env.ENVIRONMENT = Unset THEN "production"
                                   ELSE env.ENVIRONMENT]
        key == set_secret_key(IF env.SECRET_KEY.given
                              THEN [source |-> "environment", len |-> env.SECRET_KEY.len]
                              ELSE [source |-> "default", len |-> DefaultKeyLen],
                              values)
        errors == {f \in {"SECRET_KEY"} : key.raised}
                  \cup {f \in {"DATABASE_URL"} :
                          \/ env.DATABASE_URL = Unset
                          \/ (values.ENVIRONMENT = "production"
                                /\ env.DATABASE_URL # "postgresql+asyncpg")}
                  \cup {f \in {"REDIS_URL"} : env.REDIS_URL = Unset}
    IN [state |-> IF errors = {} THEN "loaded" ELSE "failed", errors |-> errors,
        ENVIRONMENT |-> values.ENVIRONMENT, SECRET_KEY |-> key.value]

ConfigInit ==
    /\ users = [u \in UserIds |-> UserRow(u)]
    /\ requests = << >>
    /\ nextRequestId = 1
    /\ notifications = {}
    /\ nextNotificationId = 1
    /\ jobs = << >>
    /\ last = Call("none", NoId, NoId, 0)
    /\ calls = 0
    /\ nextUserId = 5
    /\ inflight = {}
    /\ body = Null
    /\ sockets = << >>
    /\ gateway = Null
    /\ \E e \in {Unset, "production", "development"},
          k \in [given : {TRUE}, len : 0..MaxKeyLen] \cup {[given |-> FALSE, len |-> 0]},
          d \in {Unset, "postgresql", "postgresql+asyncpg"},
          r \in {Unset, "redis"} :
          settings = [env |-> [ENVIRONMENT |-> e, SECRET_KEY |-> k,
                               DATABASE_URL |-> d, REDIS_URL |-> r],
                      loaded |-> [state |-> "unloaded", errors |-> {},
                                  ENVIRONMENT |-> Unset,
                                  SECRET_KEY |-> [source |-> Unset, len |-> 0]]]

\* settings = Settings() at the import of core.config
ConfigNext ==
    /\ settings.loaded.state = "unloaded"
    /\ settings' = [settings EXCEPT !.loaded = Settings(settings.env)]
    /\ UNCHANGED <<users, requests, nextRequestId, notifications, nextNotificationId,
                   jobs, last, calls, nextUserId, inflight, body, sockets, gateway>>

ConfigSpec == ConfigInit /\ [][ConfigNext]_vars

\* C24: with ENVIRONMENT = production, loading the settings with a secret
\* key that is missing or shorter than 32 characters fails with an error on
\* SECRET_KEY, and settings loaded for production carry the key given in the
\* environment, never a default or generated one.
C24_ProductionNeedsSecretKey ==
    settings.loaded.state # "unloaded" =>
        /\ (/\ settings.env.ENVIRONMENT = "production"
            /\ (~settings.env.SECRET_KEY.given \/ settings.env.SECRET_KEY.len < MinKeyLen))
           => (settings.loaded.state = "failed" /\ "SECRET_KEY" \in settings.loaded.errors)
        /\ (settings.loaded.state = "loaded" /\ settings.loaded.ENVIRONMENT = "production")
           => settings.loaded.SECRET_KEY.source = "environment"

\* C25: every call of the API leaves the jobs enqueued before as they were
\* and appends one job per notification row it persisted, in the order of
\* the rows, each carrying the row's recipient, type, message and related
\* request id (the ids as strings); a call that persists no row enqueues
\* no job.
C25_OneJobPerPersistedRow ==
    [][LET k == nextNotificationId' - nextNotificationId
           fresh == {n \in notifications' : n.id >= nextNotificationId}
       IN /\ Cardinality(fresh) = k
          /\ Len(jobs') = Len(jobs) + k
          /\ SubSeq(jobs', 1, Len(jobs)) = jobs
          /\ \A i \in 1..k :
                \E n \in fresh :
                   /\ n.id = nextNotificationId + i - 1
                   /\ jobs'[Len(jobs) + i] =
                        [user_id |-> Str(n.user_id), type |-> n.type,
                         message |-> n.message,
                         related_request_id |-> Str(n.related_request_id)]]_vars

\* a creation has notified the two active managers and a status change the
\* requester: three rows and their three jobs
C25_Witness ==
    /\ Len(jobs) = 3
    /\ Cardinality(notifications) = 3
    /\ \E n \in notifications : n.type # "request_created"

\* C30: a PUT on a vacation request (plain or review) that leaves the
\* request's status as it was leaves its updated_at and its reviewer_id as
\* they were.
C30_StampOnlyOnStatusChange ==
    [][\A rid \in DOMAIN requests \cap DOMAIN requests' :
          (/\ last'.op \in {"update", "review"}
           /\ requests'[rid].status = requests[rid].status)
          => /\ requests'[rid].updated_at = requests[rid].updated_at
             /\ requests'[rid].reviewer_id = requests[rid].reviewer_id]_vars

\* C31: a payload published on the channel of user U while a socket of U
\* was registered and open is, as long as that socket stays registered and
\* open, either sent on it already or still on its way: held by Redis for
\* U's running listener or being broadcast by it.
C31_PublishedPayloadIsNotLost ==
    \A m \in DOMAIN gateway.published :
       \A ws \in gateway.published[m].sockets :
          (ws \in Registered(gateway) /\ sockets[ws].state = "open")
          => \/ \E k \in DOMAIN sockets[ws].frames :
                   /\ sockets[ws].frames[k].kind = "message"
                   /\ sockets[ws].frames[k].n = m
             \/ \E t \in DOMAIN gateway.tasks :
                   LET T == gateway.tasks[t]
                   IN /\ T.user_id = gateway.published[m].user_id
                      /\ ~T.cancelled /\ T.pc # "done"
                      /\ \/ \E k \in DOMAIN T.inbox : T.inbox[k] = m
                         \/ (T.pc = "sending" /\ T.message = m)

\* C32: every broadcast frame a socket was sent carries a payload that was
\* published for the user the socket is registered under, and every payload
\* Redis holds for a listener was published for that listener's user.
C32_PayloadStaysWithItsUser ==
    /\ \A ws \in 1..MaxSockets :
          \A k \in DOMAIN sockets[ws].frames :
             sockets[ws].frames[k].kind = "message"
             => gateway.published[sockets[ws].frames[k].n].user_id = sockets[ws].user_id
    /\ \A t \in DOMAIN gateway.tasks :
          \A k \in DOMAIN gateway.tasks[t].inbox :
             gateway.published[gateway.tasks[t].inbox[k]].user_id = gateway.tasks[t].user_id

\* a payload of user 1 has reached a socket of user 1 while a socket of
\* user 2 was registered, open and listened for, and got nothing
C32_Witness ==
    \E a, b \in 1..MaxSockets :
        /\ sockets[a].user_id = 1 /\ sockets[b].user_id = 2
        /\ gateway.published # << >>
        /\ gateway.published[1].user_id = 1
        /\ sockets[a].frames = <<Frame("message", "", 1)>>
        /\ b \in Registered(gateway) /\ sockets[b].state = "open"
        /\ sockets[b].frames = << >>
        /\ \E t \in DOMAIN gateway.tasks :
              /\ gateway.tasks[t].user_id = 2
              /\ gateway.tasks[t].pc = "listening"

(* --------------- concurrent calls on one vacation request -------------- *)
\* api/api_v1/endpoints/vacation_requests.py: every call has a session of
\* its own; a PUT or DELETE reads the row, tests it, and commits later.  The
\* calls of an owner who is neither manager nor admin are taken in these two
\* steps, one at a time; creations and reviews are taken whole.

\* update_vacation_request lines 201-245 and delete_vacation_request lines
\* 331-355 for such an owner: the row is read and the tests are made; a call
\* that passes them waits for its commit with the row as it has read it
owner_reads(op, u, rid, b) ==
    LET passes ==
          /\ is_active(u)
          /\ rid \in DOMAIN requests
          /\ requests[rid].requester_id = u
          /\ IF op = "update"
             THEN /\ UpdateValid(b)
                  /\ ~OwnerEditBlocked(TRUE, FALSE, requests[rid])
                  /\ ~OwnerSetsStatus(TRUE, FALSE, b)
                  /\ ~DateCheckFails(u, b, requests[rid])
             ELSE ~OwnerDeleteBlocked(TRUE, FALSE, requests[rid])
    IN /\ ~is_manager_or_admin(u)
       /\ inflight = {}
       /\ calls' = calls + 1
       /\ UNCHANGED <<nextUserId, body, sockets, gateway, settings>>
       /\ IF passes
          THEN /\ inflight' = {[op |-> op, caller |-> u, rid |-> rid, b |-> b,
                                seen |-> requests[rid]]}
               /\ UNCHANGED <<users, requests, nextRequestId, notifications,
                              nextNotificationId, jobs, last>>
          ELSE /\ UNCHANGED inflight
               /\ IF op = "update"
                  THEN update_vacation_request(u, rid, b, TRUE)
                  ELSE delete_vacation_request(u, rid)

\* the rest of the two handlers: crud.update_vacation_request sets the
\* body's fields on the object read before, and the commit writes the
\* columns that changed on it to the row as it is now; the refreshed row is
\* compared with the status read before and notified.  crud.delete_vacation_request
\* deletes the row by its key.
owner_commits(c) ==
    LET o == c.seen
        n == crud_update_vacation_request(o, c.b, NoId)
        req == [f \in DOMAIN o |-> IF n[f] # o[f] THEN n[f] ELSE requests[c.rid][f]]
        out == notify_status_change(c.rid, req, o.status, TRUE)
    IN /\ c.rid \in DOMAIN requests
       /\ inflight' = inflight \ {c}
       /\ UNCHANGED <<calls, nextUserId, body, sockets, gateway, settings>>
       /\ IF c.op = "update"
          THEN /\ HasRoom(out.em)
               /\ requests' = [requests EXCEPT ![c.rid] = req]
               /\ notifications' = Persisted(out.em)
               /\ nextNotificationId' = nextNotificationId + Len(out.em)
               /\ jobs' = Dispatched(jobs, out.em)
               /\ last' = Call("update", c.caller, c.rid,
                               IF out.raised THEN 500 ELSE ResponseCode(req))
               /\ UNCHANGED <<users, nextRequestId>>
          ELSE /\ crud_delete_vacation_request(c.rid)
               /\ last' = Call("delete", c.caller, c.rid, 204)
               /\ UNCHANGED <<users, nextRequestId, nextNotificationId, jobs>>

RaceNext ==
    \/ Open /\ CreateStep /\ Handled
    \/ Open /\ ReviewStep /\ Handled
    \/ Open /\ \E u \in UserIds, rid \in RequestIds, op \in {"update", "delete"} :
                  \E b \in BodiesRead(op = "update", DateEdits \cup TextEdits) :
                      owner_reads(op, u, rid, b)
    \/ \E c \in inflight : owner_commits(c)

RaceSpec == Init /\ [][RaceNext]_vars

\* C33: the commit of a PUT or DELETE of an owner who is neither manager nor
\* admin leaves a request that is no longer pending as it is.
C33_OwnerNeverChangesDecidedRequest ==
    [][\A c \in inflight :
          (c \notin inflight' /\ requests[c.rid].status # "pending")
          => /\ c.rid \in DOMAIN requests'
             /\ requests'[c.rid] = requests[c.rid]]_vars

\* C34: a call whose caller is not a stored superuser leaves no user a
\* superuser that was not one before the call.
C34_OnlySuperuserMakesSuperuser ==
    [][(/\ calls' = calls + 1
        /\ last' # last
        /\ ~(last'.caller \in DOMAIN users /\ users[last'.caller].is_superuser))
       => \A i \in DOMAIN users' :
             users'[i].is_superuser => (i \in DOMAIN users /\ users[i].is_superuser)]_vars

\* C35: a call to a notifications endpoint by a user whose is_active is
\* false is refused (400, 401 or 403) and leaves the notifications and the
\* delivery jobs as they were.
C35_InactiveCallerChangesNothing ==
    [][(/\ calls' = calls + 1
        /\ last' # last
        /\ last'.caller \in DOMAIN users
        /\ ~users[last'.caller].is_active)
       => /\ last'.code \in {400, 401, 403}
          /\ notifications' = notifications
          /\ jobs' = jobs]_vars

\* C36: after every call each request whose status is approved, rejected
\* or cancelled has a reviewer_id and an updated_at, and its reviewer_id is
\* the caller of the call that changed its status last: the caller of this
\* call if it changed the status, the reviewer_id it had before otherwise.
C36_ReviewerIsLastDecider ==
    [][\A rid \in DOMAIN requests' :
          requests'[rid].status \in {"approved", "rejected", "cancelled"}
          => /\ requests'[rid].reviewer_id # NoId
             /\ requests'[rid].updated_at # Null
             /\ requests'[rid].reviewer_id =
                  IF rid \in DOMAIN requests
                     /\ requests[rid].status = requests'[rid].status
                  THEN requests[rid].reviewer_id
                  ELSE last'.caller]_vars

(* ----------------- notifications beyond the page limit ----------------- *)
\* user 1 holds about as many notifications as get_user_notifications
\* returns by default, a row more or less
PageInit ==
    \E k \in (PageLimit - 1)..(PageLimit + MaxOver), r \in 0..1 :
        /\ users = [u \in UserIds |-> UserRow(u)]
        /\ requests = << >>
        /\ nextRequestId = 1
        /\ notifications = BulkRows(k, r)
        /\ nextNotificationId = k + r + 1
        /\ jobs = << >>
        /\ last = Call("none", NoId, NoId, 0)
        /\ calls = 0
        /\ nextUserId = 5
        /\ inflight = {}
        /\ body = Null
        /\ sockets = << >>
        /\ gateway = Null
        /\ settings = Null

\* PUT and DELETE /notifications/{id} on the two oldest rows and the newest
PageNext ==
    \/ Open /\ Served
       /\ \E u \in UserIds, id \in {1, 2, nextNotificationId - 1}, b \in ReadEdits :
             update_user_notification(u, id, b)
    \/ Open /\ Served
       /\ \E u \in UserIds, id \in {1, 2, nextNotificationId - 1} :
             delete_user_notification(u, id)

PageSpec == PageInit /\ [][PageNext]_vars

\* C37: a PUT or DELETE /notifications/{id} by the user a stored
\* notification is addressed to is not answered 404.
C37_OwnedNotificationIsFound ==
    [][(/\ calls' = calls + 1
        /\ last' # last
        /\ last'.op \in {"put", "remove"}
        /\ \E n \in notifications : n.id = last'.rid /\ n.user_id = last'.caller)
       => last'.code # 404]_vars

====
